---- MODULE Spec2Model ----
(***************************************************************************)
(* Dark Document Reader: the viewer host (src/app/page.tsx) and the three  *)
(* viewer components it dispatches to (PDF by iframe or by canvas, Word,   *)
(* Text).  One step of the model is one browser task: an event handler, a  *)
(* timer callback or the continuation of an awaited promise, followed by   *)
(* the React commit it causes (state batched, effect cleanups, effects).   *)
(***************************************************************************)
EXTENDS Integers, Sequences, FiniteSets, TLC

VARIABLES
    documentFile,   \* page.tsx:47  the selected File, or NoFile
    fileType,       \* page.tsx:48  "pdf" | "word" | "text" | "null"
    currentPage,    \* page.tsx:49
    totalPages,     \* page.tsx:50
    rotation,       \* page.tsx:52
    theme,          \* page.tsx:54
    autoScroll,     \* page.tsx:55
    scrollSpeed,    \* page.tsx:56  in halves: 2 stands for 1.0
    selFile,        \* the local `file` of the last handleFileSelect/handleDrop
    selType,        \* the local `type` of that handler ("none" before any)
    pdfImpl,        \* which PDFViewer module the build resolves: iframe | canvas
    isLoading,      \* the mounted viewer's isLoading state
    error,          \* the mounted Word/Text viewer's error state
    pdfDoc,         \* canvas PDFViewer's pdfDoc state (a File, or NoFile)
    content,        \* what the viewer shows: pdfUrl / htmlContent / textContent
    autoScrollRef,  \* PDFViewer's autoScrollRef.current (a timer id, or NoTimer)
    timers,         \* the intervals the browser holds (set by setInterval)
    loads,          \* load promises in flight, in the order they were started
    renders,        \* canvas renderPage calls in flight
    canvas,         \* what the canvas of the canvas PDFViewer shows
    zoom,           \* page.tsx:51  in quarters: 4 stands for 1.0
    contrast,       \* page.tsx:57  in tenths: 10 stands for 1.0
    brightness,     \* page.tsx:58  in tenths: 10 stands for 1.0
    objectUrls,     \* the files whose URL.createObjectURL handle is not revoked
    cleanupUrl,     \* the pdfUrl the iframe load effect's cleanup closed over
    lastAdjust,     \* the visual-adjustment command that ran last ("none" at first)
    pixel,          \* one RGBA pixel of the rendered page (getImageData)
    sepiaOut,       \* that pixel after the sepia loop, or NoPixel before it
    updates         \* updaters queued on setCurrentPage, not yet rendered

hostVars   == <<documentFile, fileType, currentPage, totalPages, rotation,
                theme, autoScroll, scrollSpeed, zoom, contrast, brightness>>
selVars    == <<selFile, selType>>
viewerVars == <<isLoading, error, pdfDoc, content>>
taskVars   == <<autoScrollRef, timers, loads, renders, canvas>>
visualVars == <<zoom, contrast, brightness>>
urlVars    == <<objectUrls, cleanupUrl>>
auxVars    == <<lastAdjust, pixel, sepiaOut, updates>>
vars       == <<hostVars, selVars, pdfImpl, viewerVars, taskVars, urlVars, auxVars>>

(***************************************************************************)
(* Bounds of the model.                                                    *)
(***************************************************************************)
MaxPage    == 4   \* currentPage is not driven beyond this
MaxLoads   == 2   \* load promises in flight at once
MaxRenders == 2   \* renderPage calls in flight at once
MaxUpdates == 3   \* updaters queued between two renders
MaxTimers  == 2   \* intervals alive at once

(***************************************************************************)
(* Program constants.                                                      *)
(***************************************************************************)
PlaceholderPages == 100     \* onTotalPagesChange(100)
BaseInterval     == 3000    \* 3000 / scrollSpeed
SpeedMin         == 1       \* Slider min={0.5}, in halves
SpeedMax         == 6       \* Slider max={3.0}, in halves
scrollSpeedInit  == 2       \* useState(1), in halves
ZoomInit         == 4       \* useState(1.0), in quarters
ZoomStep         == 1       \* prev + 0.25
ZoomMin          == 2       \* Math.max(..., 0.5)
ZoomMax          == 12      \* Math.min(..., 3.0)
ZoomSliderMax    == 8       \* Layout Zoom slider max={2.0}
ContrastInit     == 10      \* useState(1.0), in tenths
ContrastMin      == 5       \* Contrast slider min={0.5}
ContrastMax      == 20      \* Contrast slider max={2.0}
BrightnessInit   == 10      \* useState(1.0), in tenths
BrightnessMin    == 5       \* Brightness slider min={0.5}
BrightnessMax    == 15      \* Brightness slider max={1.5}

NoFile  == [name |-> <<>>, type |-> "", numPages |-> 0]
NoTimer == 0
Blank   == [page |-> 0, rotation |-> 0, theme |-> "none"]
NoPixel == <<>>

Themes    == {"dark", "sepia", "high-contrast"}
Rotations == {0, 90, 180, 270}

PdfMime  == "application/pdf"
DocxMime == "application/vnd.openxmlformats-officedocument.wordprocessingml.document"
DocMime  == "application/msword"
TextMime == "text/plain"

Min(a, b) == IF a < b THEN a ELSE b
Max(a, b) == IF a > b THEN a ELSE b

(***************************************************************************)
(* File names are sequences of characters; String.prototype.endsWith.      *)
(***************************************************************************)
EndsWith(name, suffix) ==
    /\ Len(name) >= Len(suffix)
    /\ SubSeq(name, Len(name) - Len(suffix) + 1, Len(name)) = suffix

DotDocx == <<".", "d", "o", "c", "x">>
DotDoc  == <<".", "d", "o", "c">>
DotTxt  == <<".", "t", "x", "t">>
DotPdf  == <<".", "p", "d", "f">>

(***************************************************************************)
(* getFileType, page.tsx:90-104.                                           *)
(***************************************************************************)
getFileType(file) ==
    IF file.type = PdfMime THEN "pdf"
    ELSE IF \/ file.type = DocxMime
            \/ file.type = DocMime
            \/ EndsWith(file.name, DotDocx)
            \/ EndsWith(file.name, DotDoc)
         THEN "word"
    ELSE IF file.type = TextMime \/ EndsWith(file.name, DotTxt)
         THEN "text"
    ELSE "null"


(***************************************************************************)
(* The files the user can offer to the picker or the drop zone.            *)
(***************************************************************************)
File(name, type, n) == [name |-> name, type |-> type, numPages |-> n]

PdfA   == File(<<"a">> \o DotPdf, PdfMime, 3)
PdfB   == File(<<"b">> \o DotPdf, PdfMime, 2)
WordA  == File(<<"r">> \o DotDocx, "", 0)
TextA  == File(<<"n">> \o DotTxt, TextMime, 0)
ImageA == File(<<"i", ".", "p", "n", "g">>, "image/png", 0)

Files == {PdfA, PdfB, WordA, TextA, ImageA}

(***************************************************************************)
(* Which viewer page.tsx:541-573 mounts.                                   *)
(***************************************************************************)
PdfMounted == documentFile # NoFile /\ fileType = "pdf"

IframePdf(type) == type = "pdf" /\ pdfImpl = "iframe"

(***************************************************************************)
(* The auto-scroll effect of PDFViewer.  Its dependencies are              *)
(* [autoScroll, scrollSpeed, onPageChange] (iframe) and also pdfDoc        *)
(* (canvas); it runs on mount, its cleanup runs on unmount.                *)
(***************************************************************************)
ScrollDepsWithoutMount == <<autoScroll, scrollSpeed, pdfDoc>>

ScrollDeps == <<PdfMounted, autoScroll, scrollSpeed, pdfDoc>>

ScrollOn ==
    /\ PdfMounted
    /\ autoScroll
    /\ (pdfImpl = "iframe" \/ pdfDoc # NoFile)

\* const interval = 3000 / scrollSpeed, scrollSpeed in halves
Interval(speed) == (BaseInterval * 2) \div speed

ClearIntervalForgotten(ts, ref) == ts

\* clearInterval(autoScrollRef.current)
ClearInterval(ts, ref) == {t \in ts : t.id # ref}

\* the id setInterval returns: one no live timer has and the ref does not hold
FreshTimer(ts) ==
    CHOOSE i \in 1..(MaxTimers + 1) : i \notin {t.id : t \in ts} \cup {autoScrollRef}

AutoScrollEffect ==
    LET changed == ScrollDeps' # ScrollDeps
        kept    == IF changed /\ ScrollOn
                   THEN ClearInterval(timers, autoScrollRef)
                   ELSE timers
        id      == FreshTimer(kept)
    IN  IF changed /\ ScrollOn'
        THEN /\ Cardinality(kept) < MaxTimers
             /\ timers' = kept \cup {[id       |-> id,
                                      interval |-> Interval(scrollSpeed'),
                                      numPages |-> pdfDoc'.numPages,
                                      file     |-> documentFile']}
             /\ autoScrollRef' = id
        ELSE /\ timers' = kept
             /\ autoScrollRef' = IF PdfMounted' THEN autoScrollRef ELSE NoTimer

(***************************************************************************)
(* The renderPage effect of the canvas PDFViewer, dependencies             *)
(* [pdfDoc, currentPage, zoom, rotation, theme]; zoom is always 1.0.       *)
(***************************************************************************)
RenderDeps == <<PdfMounted, pdfDoc, currentPage, rotation, theme>>

RenderEffect ==
    LET kept == IF PdfMounted' THEN renders ELSE <<>>
    IN  IF /\ pdfImpl = "canvas"
           /\ RenderDeps' # RenderDeps
           /\ PdfMounted'
           /\ pdfDoc' # NoFile
           /\ ~isLoading'
        THEN /\ Len(kept) < MaxRenders
             /\ renders' = Append(kept, [page     |-> currentPage',
                                         rotation |-> rotation',
                                         theme    |-> theme',
                                         stage    |-> "getPage"])
        ELSE renders' = kept

\* the effects React runs after a commit that leaves the viewer mounted as is
Commit == AutoScrollEffect /\ RenderEffect

(***************************************************************************)
(* Initial state: DocumentReader just constructed, no document.            *)
(***************************************************************************)
Init ==
    /\ documentFile = NoFile
    /\ fileType = "null"
    /\ currentPage = 1
    /\ totalPages = 0
    /\ rotation = 0
    /\ theme = "dark"
    /\ autoScroll = FALSE
    /\ scrollSpeed = scrollSpeedInit
    /\ selFile = NoFile
    /\ selType = "none"
    /\ pdfImpl \in {"iframe", "canvas"}
    /\ isLoading = FALSE
    /\ error = ""
    /\ pdfDoc = NoFile
    /\ content = NoFile
    /\ autoScrollRef = NoTimer
    /\ timers = {}
    /\ loads = <<>>
    /\ renders = <<>>
    /\ canvas = Blank
    /\ zoom = ZoomInit
    /\ contrast = ContrastInit
    /\ brightness = BrightnessInit
    /\ objectUrls = {}
    /\ cleanupUrl = NoFile
    /\ lastAdjust = "none"
    /\ pixel = <<0, 0, 0, 255>>
    /\ sepiaOut = NoPixel
    /\ updates = <<>>

(***************************************************************************)
(* handleFileSelect / handleDrop, page.tsx:106-135.  The file input and    *)
(* the drop zone are rendered only while no document is open               *)
(* (page.tsx:511-538).                                                     *)
(***************************************************************************)
\* the upload card (file input, drop zone) is rendered only without a document
PickerShown == documentFile = NoFile

\* the header controls and the viewer are rendered only with a document
DocumentOpen == documentFile # NoFile

\* URL.createObjectURL(file), pdf-viewer-alternative.tsx:43
CreateObjectURL(urls, f) == urls \cup {f}

\* the cleanup of the iframe load effect, pdf-viewer-alternative.tsx:59-63:
\* pdfUrl is the state of the render in which the effect ran
LoadCleanup(urls, pdfUrl) == IF pdfUrl # NoFile THEN urls \ {pdfUrl} ELSE urls

\* the branch `if (type)`: the four setters, then the viewer mounts and its
\* load effect runs (synchronously to the end for the iframe PDFViewer)
AcceptFile(f, type) ==
    /\ documentFile' = f
    /\ fileType' = type
    /\ currentPage' = 1
    /\ totalPages' = IF IframePdf(type) THEN PlaceholderPages ELSE 0
    /\ UNCHANGED <<rotation, theme, autoScroll, scrollSpeed, pdfImpl,
                   visualVars, auxVars>>
    /\ isLoading' = ~IframePdf(type)
    /\ error' = ""
    /\ pdfDoc' = NoFile
    /\ content' = IF IframePdf(type) THEN f ELSE NoFile
    /\ IF IframePdf(type)
       THEN loads' = loads
       ELSE /\ Len(loads) < MaxLoads
            /\ loads' = Append(loads, [file |-> f, kind |-> type, live |-> TRUE])
    /\ IF IframePdf(type)
       THEN /\ objectUrls' = CreateObjectURL(objectUrls, f)
            /\ cleanupUrl' = content
       ELSE UNCHANGED urlVars
    /\ canvas' = Blank
    /\ Commit

RejectFileResetsPages(f) ==
    /\ currentPage' = 1
    /\ totalPages' = 0
    /\ autoScroll' = FALSE
    /\ UNCHANGED <<documentFile, fileType, rotation, theme, scrollSpeed,
                   visualVars, pdfImpl, viewerVars, taskVars, urlVars, auxVars>>

\* the branch `else`: alert(...) and nothing else
RejectFile(f) ==
    UNCHANGED <<hostVars, pdfImpl, viewerVars, taskVars, urlVars, auxVars>>

handleFileSelect(f) ==
    /\ PickerShown
    /\ selFile' = f
    /\ selType' = getFileType(f)
    /\ IF getFileType(f) # "null"
       THEN AcceptFile(f, getFileType(f))
       ELSE RejectFile(f)

handleDrop(f) ==
    /\ PickerShown
    /\ selFile' = f
    /\ selType' = getFileType(f)
    /\ IF getFileType(f) # "null"
       THEN AcceptFile(f, getFileType(f))
       ELSE RejectFile(f)

(***************************************************************************)
(* handleGoHome, page.tsx:141-150; offered only while a document is open.  *)
(* The viewer unmounts: effect cleanups run, its state is gone, and the    *)
(* promises it started keep running without a component to write to.       *)
(***************************************************************************)
Orphan(ls) == [i \in 1..Len(ls) |-> [ls[i] EXCEPT !.live = FALSE]]

handleGoHome ==
    /\ DocumentOpen
    /\ documentFile' = NoFile
    /\ fileType' = "null"
    /\ currentPage' = 1
    /\ totalPages' = 0
    /\ UNCHANGED <<rotation, theme, autoScroll, scrollSpeed, pdfImpl, selVars,
                   visualVars, auxVars>>
    /\ objectUrls' = IF IframePdf(fileType)
                     THEN LoadCleanup(objectUrls, cleanupUrl)
                     ELSE objectUrls
    /\ cleanupUrl' = NoFile
    /\ isLoading' = FALSE
    /\ error' = ""
    /\ pdfDoc' = NoFile
    /\ content' = NoFile
    /\ loads' = Orphan(loads)
    /\ canvas' = Blank
    /\ Commit


(***************************************************************************)
(* Page navigation and the other host commands, page.tsx:166-172; the      *)
(* guards are those of the controls that call them (page.tsx:285-319,      *)
(* 464-488).                                                               *)
(***************************************************************************)
HostStep ==
    /\ UNCHANGED <<documentFile, fileType, totalPages, pdfImpl, selVars,
                   viewerVars, loads, canvas, visualVars, urlVars, auxVars>>
    /\ Commit

nextPageAnyFormat ==
    /\ documentFile # NoFile
    /\ ~(currentPage >= totalPages)
    /\ currentPage < MaxPage
    /\ currentPage' = Min(currentPage + 1, totalPages)
    /\ UNCHANGED <<rotation, theme, autoScroll, scrollSpeed>>
    /\ HostStep
nextPage ==
    /\ PdfMounted
    /\ ~(currentPage >= totalPages)
    /\ currentPage < MaxPage
    /\ currentPage' = Min(currentPage + 1, totalPages)
    /\ UNCHANGED <<rotation, theme, autoScroll, scrollSpeed>>
    /\ HostStep

prevPage ==
    /\ PdfMounted
    /\ ~(currentPage <= 1)
    /\ currentPage' = Max(currentPage - 1, 1)
    /\ UNCHANGED <<rotation, theme, autoScroll, scrollSpeed>>
    /\ HostStep

rotateWithoutModulo ==
    /\ PdfMounted
    /\ rotation' = rotation + 90
    /\ UNCHANGED <<currentPage, theme, autoScroll, scrollSpeed>>
    /\ HostStep
rotate ==
    /\ PdfMounted
    /\ rotation' = (rotation + 90) % 360
    /\ UNCHANGED <<currentPage, theme, autoScroll, scrollSpeed>>
    /\ HostStep

setTheme(value) ==
    /\ value # theme
    /\ theme' = value
    /\ UNCHANGED <<currentPage, rotation, autoScroll, scrollSpeed>>
    /\ HostStep

\* <Switch checked={autoScroll} onCheckedChange={setAutoScroll}/>
setAutoScroll(checked) ==
    /\ fileType = "pdf"
    /\ checked # autoScroll
    /\ autoScroll' = checked
    /\ UNCHANGED <<currentPage, rotation, theme, scrollSpeed>>
    /\ HostStep

\* the Scroll Speed slider, shown while autoScroll is on
setScrollSpeed(value) ==
    /\ fileType = "pdf"
    /\ autoScroll
    /\ value # scrollSpeed
    /\ scrollSpeed' = value
    /\ UNCHANGED <<currentPage, rotation, theme, autoScroll>>
    /\ HostStep

(***************************************************************************)
(* The interval callback: onPageChange(prev => ...) on the host's          *)
(* setCurrentPage.                                                         *)
(***************************************************************************)
\* pdf-viewer-alternative.tsx:70-72
IframeAdvance(prev) == prev + 1

\* part_000:313-318, numPages is pdfDoc.numPages of the effect's closure
CanvasAdvance(prev, numPages) == IF prev >= numPages THEN 1 ELSE prev + 1

Advance(t, prev) ==
    IF pdfImpl = "iframe" THEN IframeAdvance(prev) ELSE CanvasAdvance(prev, t.numPages)

TimerTick(t) ==
    /\ t \in timers
    /\ Advance(t, currentPage) <= MaxPage
    /\ currentPage' = Advance(t, currentPage)
    /\ UNCHANGED <<rotation, theme, autoScroll, scrollSpeed>>
    /\ HostStep

(***************************************************************************)
(* The same three events when React has not yet rendered between them:     *)
(* setCurrentPage(fn) only queues fn on the hook, and the next render      *)
(* runs the queued updaters in order, each on the result of the one        *)
(* before.  An updater carries what its closure holds: totalPages and      *)
(* currentPage of the render that made the handler, numPages of the        *)
(* effect that made the interval.                                          *)
(***************************************************************************)
Updater(event, numPages) ==
    [event |-> event, totalPages |-> totalPages, page |-> currentPage,
     numPages |-> numPages]

\* what the queued function returns for prev
ApplyUpdateToRendered(u, prev) ==
    CASE u.event = "next" -> Min(u.page + 1, u.totalPages)
      [] u.event = "prev" -> Max(u.page - 1, 1)
      [] u.event = "tick" -> IF pdfImpl = "iframe"
                             THEN IframeAdvance(u.page)
                             ELSE CanvasAdvance(u.page, u.numPages)
ApplyUpdate(u, prev) ==
    CASE u.event = "next" -> Min(prev + 1, u.totalPages)
      [] u.event = "prev" -> Max(prev - 1, 1)
      [] u.event = "tick" -> IF pdfImpl = "iframe"
                             THEN IframeAdvance(prev)
                             ELSE CanvasAdvance(prev, u.numPages)

\* the render's pass over the queue of the hook
RECURSIVE ProcessUpdates(_, _)
ProcessUpdates(queue, state) ==
    IF queue = <<>>
    THEN state
    ELSE ProcessUpdates(Tail(queue), ApplyUpdate(Head(queue), state))

\* an event handler that only queues: nothing is rendered, no effect runs
Enqueue(u) ==
    /\ Len(updates) < MaxUpdates
    /\ ProcessUpdates(Append(updates, u), currentPage) <= MaxPage
    /\ updates' = Append(updates, u)
    /\ UNCHANGED <<hostVars, selVars, pdfImpl, viewerVars, taskVars, urlVars,
                   lastAdjust, pixel, sepiaOut>>

\* a click on Next: the button is the one of the last render
nextPageUpdate ==
    /\ PdfMounted
    /\ ~(currentPage >= totalPages)
    /\ Enqueue(Updater("next", 0))

\* a click on Previous
prevPageUpdate ==
    /\ PdfMounted
    /\ ~(currentPage <= 1)
    /\ Enqueue(Updater("prev", 0))

\* the interval callback
tickUpdate(t) ==
    /\ t \in timers
    /\ Enqueue(Updater("tick", t.numPages))

\* the render: the queue is processed and the commit runs the effects
flushUpdates ==
    /\ updates # <<>>
    /\ currentPage' = ProcessUpdates(updates, currentPage)
    /\ updates' = <<>>
    /\ UNCHANGED <<documentFile, fileType, totalPages, rotation, theme,
                   autoScroll, scrollSpeed, pdfImpl, selVars, viewerVars,
                   loads, canvas, visualVars, urlVars, lastAdjust, pixel,
                   sepiaOut>>
    /\ Commit

(***************************************************************************)
(* The continuation of a load: canvas loadPDF (part_000:223-246),          *)
(* loadWordDocument (part_000:22-49), loadTextFile                         *)
(* (pdf-viewer-alternative.tsx:165-191).  ok says whether the awaited      *)
(* collaborator resolved; the setters of an unmounted viewer do nothing,   *)
(* onTotalPagesChange is the host's setTotalPages.                         *)
(***************************************************************************)
Remove(seq, i) == SubSeq(seq, 1, i - 1) \o SubSeq(seq, i + 1, Len(seq))

ReportedPages(l) == IF l.kind = "pdf" THEN l.file.numPages ELSE 1

LoadResolved(l) ==
    /\ totalPages' = ReportedPages(l)
    /\ IF l.live
       THEN /\ isLoading' = FALSE
            /\ pdfDoc' = IF l.kind = "pdf" THEN l.file ELSE pdfDoc
            /\ content' = IF l.kind = "pdf" THEN content ELSE l.file
            /\ error' = error
       ELSE UNCHANGED viewerVars

LoadRejectedStaysLoading(l) ==
    /\ totalPages' = totalPages
    /\ IF l.live
       THEN /\ isLoading' = isLoading
            /\ error' = IF l.kind = "pdf" THEN error ELSE "Failed to load"
            /\ UNCHANGED <<pdfDoc, content>>
       ELSE UNCHANGED viewerVars

LoadRejected(l) ==
    /\ totalPages' = totalPages
    /\ IF l.live
       THEN /\ isLoading' = FALSE
            /\ error' = IF l.kind = "pdf" THEN error ELSE "Failed to load"
            /\ UNCHANGED <<pdfDoc, content>>
       ELSE UNCHANGED viewerVars

LoadComplete(i, ok) ==
    /\ i \in 1..Len(loads)
    /\ IF ok THEN LoadResolved(loads[i]) ELSE LoadRejected(loads[i])
    /\ loads' = Remove(loads, i)
    /\ UNCHANGED <<documentFile, fileType, currentPage, rotation, theme,
                   autoScroll, scrollSpeed, pdfImpl, selVars, canvas,
                   visualVars, urlVars, auxVars>>
    /\ Commit

(***************************************************************************)
(* The continuations of renderPage, part_000:251-303: after getPage the    *)
(* canvas is resized and filled with the theme's background, after         *)
(* page.render the page is on the canvas and the theme's filter applied.   *)
(***************************************************************************)
RenderStep(i) ==
    /\ i \in 1..Len(renders)
    /\ LET r == renders[i]
       IN  IF r.stage = "getPage"
           THEN IF r.page \in 1..pdfDoc.numPages
                THEN /\ canvas' = [page |-> 0, rotation |-> r.rotation, theme |-> r.theme]
                     /\ renders' = [renders EXCEPT ![i].stage = "render"]
                ELSE /\ canvas' = canvas
                     /\ renders' = Remove(renders, i)
           ELSE /\ canvas' = [page |-> r.page, rotation |-> r.rotation, theme |-> r.theme]
                /\ renders' = Remove(renders, i)
    /\ UNCHANGED <<hostVars, pdfImpl, selVars, viewerVars, autoScrollRef, timers,
                   loads, urlVars, auxVars>>

Speeds == SpeedMin..SpeedMax

\* the slider positions tried: both ends of the slider and the initial 1.0
SpeedChoices == {v \in Speeds : v = SpeedMin \/ v = scrollSpeedInit \/ v = SpeedMax}

(***************************************************************************)
(* The document session: selection, close, navigation, auto-scroll, and    *)
(* the asynchronous continuations.                                         *)
(***************************************************************************)
Next ==
    \/ \E f \in Files : handleFileSelect(f)
    \/ \E f \in Files : handleDrop(f)
    \/ handleGoHome
    \/ nextPage
    \/ prevPage
    \/ \E b \in BOOLEAN : setAutoScroll(b)
    \/ \E v \in SpeedChoices : setScrollSpeed(v)
    \/ \E t \in timers : TimerTick(t)
    \/ \E i \in 1..MaxLoads, ok \in BOOLEAN : LoadComplete(i, ok)
    \/ \E i \in 1..MaxRenders : RenderStep(i)

Spec == Init /\ [][Next]_vars

(***************************************************************************)
(* Rendering on the canvas: one PDF, navigation, rotation and theme        *)
(* changes, and the continuations of renderPage in any order.              *)
(***************************************************************************)
InitRender == Init /\ pdfImpl = "canvas"

NextRender ==
    \/ handleFileSelect(PdfA)
    \/ nextPage
    \/ prevPage
    \/ rotate
    \/ \E v \in Themes : setTheme(v)
    \/ \E i \in 1..MaxLoads, ok \in BOOLEAN : LoadComplete(i, ok)
    \/ \E i \in 1..MaxRenders : RenderStep(i)

SpecRender == InitRender /\ [][NextRender]_vars

(***************************************************************************)
(* Format detection: the first selection, over every combination of a      *)
(* file name and a declared media type.                                    *)
(***************************************************************************)
DetectNames ==
    { <<"a">> \o DotPdf,
      <<"a">> \o DotDocx,
      <<"a">> \o DotDoc,
      <<"a">> \o DotTxt,
      <<"a">> \o DotPdf \o DotTxt,
      <<"a">> \o DotTxt \o DotPdf,
      <<"a">> \o DotDoc \o <<"s">>,
      <<"a", ".", "p", "n", "g">>,
      <<"d", "o", "c", "x">>,
      <<"a">> }

DetectTypes ==
    {PdfMime, DocxMime, DocMime, TextMime, "", "application/octet-stream"}

DetectFiles == {File(n, t, 2) : n \in DetectNames, t \in DetectTypes}

NextDetect ==
    \/ \E f \in DetectFiles : handleFileSelect(f)
    \/ \E f \in DetectFiles : handleDrop(f)
    \/ \E i \in 1..MaxLoads, ok \in BOOLEAN : LoadComplete(i, ok)

SpecDetect == Init /\ [][NextDetect]_vars

TypeOK ==
    /\ documentFile \in Files \cup {NoFile}
    /\ fileType \in {"pdf", "word", "text", "null"}
    /\ currentPage \in 0..MaxPage
    /\ totalPages \in 0..PlaceholderPages
    /\ rotation \in Rotations
    /\ theme \in Themes
    /\ autoScroll \in BOOLEAN
    /\ scrollSpeed \in Speeds
    /\ Len(loads) <= MaxLoads
    /\ Len(renders) <= MaxRenders
    /\ Cardinality(timers) <= MaxTimers
    /\ zoom \in ZoomMin..ZoomMax
    /\ contrast \in ContrastMin..ContrastMax
    /\ brightness \in BrightnessMin..BrightnessMax
    /\ objectUrls \subseteq Files
    /\ cleanupUrl \in Files \cup {NoFile}


\* an open PDF whose ticks and clicks are queued between renders
NextQueue ==
    \/ handleFileSelect(PdfA)
    \/ \E i \in 1..MaxLoads, ok \in BOOLEAN : LoadComplete(i, ok)
    \/ \E i \in 1..MaxRenders : RenderStep(i)
    \/ \E b \in BOOLEAN : setAutoScroll(b)
    \/ nextPageUpdate
    \/ prevPageUpdate
    \/ \E t \in timers : tickUpdate(t)
    \/ flushUpdates

SpecQueue == Init /\ [][NextQueue]_vars


\* the loads of the three viewers; every awaited promise of a load settles
\* in the end, which is weak fairness of the continuation
NextLoad ==
    \/ \E f \in {PdfA, WordA, TextA} : handleFileSelect(f)
    \/ handleGoHome
    \/ \E i \in 1..MaxLoads, ok \in BOOLEAN : LoadComplete(i, ok)
    \/ \E i \in 1..MaxRenders : RenderStep(i)

SpecLoad ==
    /\ Init
    /\ [][NextLoad]_vars
    /\ WF_vars(\E i \in 1..MaxLoads, ok \in BOOLEAN : LoadComplete(i, ok))


\* a PDF and a Word document under the Rotate button
NextRotate ==
    \/ \E f \in {PdfA, WordA} : handleFileSelect(f)
    \/ handleGoHome
    \/ rotate
    \/ \E i \in 1..MaxLoads, ok \in BOOLEAN : LoadComplete(i, ok)
    \/ \E i \in 1..MaxRenders : RenderStep(i)

SpecRotate == Init /\ [][NextRotate]_vars


\* ---- visual adjustments (page.tsx:166-178, 403-460) ----

\* the deps of the Word/Text/canvas load effects: [file, onTotalPagesChange],
\* where onTotalPagesChange is the stable setter setTotalPages
LoadDepsWithStyle == <<documentFile, theme, zoom, contrast, brightness>>
LoadDeps == <<documentFile>>

\* the load effect on a commit: loadDocument() runs again when a dep changed
LoadEffect ==
    IF LoadDeps' # LoadDeps /\ DocumentOpen /\ ~IframePdf(fileType)
       /\ Len(loads) < MaxLoads
    THEN /\ isLoading' = TRUE
         /\ error' = ""
         /\ loads' = Append(loads, [file |-> documentFile, kind |-> fileType,
                                    live |-> TRUE])
    ELSE UNCHANGED <<isLoading, error, loads>>

\* a host command that changes only zoom, contrast or brightness
VisualStep ==
    /\ UNCHANGED <<documentFile, fileType, currentPage, totalPages, rotation,
                   theme, autoScroll, scrollSpeed, pdfImpl, selVars, pdfDoc,
                   content, canvas, urlVars, pixel, sepiaOut, updates>>
    /\ LoadEffect
    /\ Commit

\* setZoom((prev) => Math.min(prev + 0.25, 3.0))
ZoomInUnclamped(prev) == prev + ZoomStep
ZoomInValue(prev) == Min(prev + ZoomStep, ZoomMax)

\* setZoom((prev) => Math.max(prev - 0.25, 0.5))
ZoomOutValue(prev) == Max(prev - ZoomStep, ZoomMin)

\* the toolbar button or Ctrl/Cmd with + or =
zoomIn ==
    /\ zoom' = ZoomInValue(zoom)
    /\ lastAdjust' = "zoomIn"
    /\ UNCHANGED <<contrast, brightness>>
    /\ VisualStep

\* the toolbar button or Ctrl/Cmd with -
zoomOut ==
    /\ zoom' = ZoomOutValue(zoom)
    /\ lastAdjust' = "zoomOut"
    /\ UNCHANGED <<contrast, brightness>>
    /\ VisualStep

\* Ctrl/Cmd with 0
resetZoom ==
    /\ zoom' = ZoomInit
    /\ lastAdjust' = "resetZoom"
    /\ UNCHANGED <<contrast, brightness>>
    /\ VisualStep

\* the Layout Zoom slider of the settings sheet
ZoomSlider == ZoomMin..ZoomSliderMax
setZoom(value) ==
    /\ zoom' = value
    /\ lastAdjust' = "setZoom"
    /\ UNCHANGED <<contrast, brightness>>
    /\ VisualStep

\* the Contrast slider
Contrasts == ContrastMin..ContrastMax
setContrast(value) ==
    /\ contrast' = value
    /\ lastAdjust' = "setContrast"
    /\ UNCHANGED <<zoom, brightness>>
    /\ VisualStep

\* the Brightness slider
Brightnesses == BrightnessMin..BrightnessMax
setBrightness(value) ==
    /\ brightness' = value
    /\ lastAdjust' = "setBrightness"
    /\ UNCHANGED <<zoom, contrast>>
    /\ VisualStep

\* the Reset button of Visual Comfort
resetVisualSettingsAndTheme ==
    /\ contrast' = ContrastInit
    /\ brightness' = BrightnessInit
    /\ zoom' = ZoomInit
    /\ theme' = "dark"
    /\ lastAdjust' = "resetVisualSettings"
    /\ UNCHANGED <<documentFile, fileType, currentPage, totalPages, rotation,
                   autoScroll, scrollSpeed, pdfImpl, selVars, pdfDoc,
                   content, canvas, urlVars, pixel, sepiaOut, updates>>
    /\ LoadEffect
    /\ Commit
resetVisualSettings ==
    /\ contrast' = ContrastInit
    /\ brightness' = BrightnessInit
    /\ zoom' = ZoomInit
    /\ lastAdjust' = "resetVisualSettings"
    /\ VisualStep

\* ---- resolved text colours; opacity in hundredths, contrast in tenths ----

OpacityOne == 100      \* the 1 of Math.min(1, ...)

\* Math.min(1, 0.7 + (contrast - 1) * 0.3), part_000:80
WordTextOpacityFalling(c) == Min(OpacityOne, 70 - (c - 10) * 3)
WordTextOpacity(c) == Min(OpacityOne, 70 + (c - 10) * 3)

\* Math.min(1, 0.9 + (contrast - 1) * 0.1), part_000:81
WordHeadingOpacity(c) == Min(OpacityOne, 90 + (c - 10) * 1)

\* Math.min(1, 0.8 + (contrast - 1) * 0.2), pdf-viewer-alternative.tsx:222
TextOpacity(c) == Min(OpacityOne, 80 + (c - 10) * 2)

\* the rgba() colours of the ruleset of WordViewer, by theme
getContentStyles(t, c) ==
    [heading |-> [rgb   |-> CASE t = "sepia" -> <<244, 228, 193>>
                              [] t = "high-contrast" -> <<255, 255, 255>>
                              [] OTHER -> <<249, 250, 251>>,
                  alpha |-> WordHeadingOpacity(c)],
     text    |-> [rgb   |-> CASE t = "sepia" -> <<232, 213, 183>>
                              [] t = "high-contrast" -> <<255, 255, 255>>
                              [] OTHER -> <<229, 231, 235>>,
                  alpha |-> WordTextOpacity(c)]]

\* the rgba() colour of the text of TextViewer, by theme
getTextColor(t, c) ==
    [rgb   |-> CASE t = "sepia" -> <<232, 213, 183>>
                 [] t = "high-contrast" -> <<255, 255, 255>>
                 [] OTHER -> <<229, 231, 235>>,
     alpha |-> TextOpacity(c)]

\* ---- the sepia filter of renderPage, part_000:286-302 ----

ChannelMax == 255      \* Math.min(255, ...), and the top of a Uint8ClampedArray
Thousand   == 1000     \* the coefficients are held in thousandths

\* n / d rounded to the nearest integer, ties to even
RoundHalfEven(n, d) ==
    LET q == n \div d
        r == n % d
    IN  IF 2 * r > d THEN q + 1
        ELSE IF 2 * r = d THEN q + (q % 2)
        ELSE q

\* the store into imageData.data, a Uint8ClampedArray: clamp, then round;
\* x is in thousandths
ToUint8Clamped(x) ==
    RoundHalfEven(Max(0, Min(ChannelMax * Thousand, x)), Thousand)

\* one turn of the loop over the pixels: data[i], data[i + 1], data[i + 2]
\* are rewritten, data[i + 3] is not touched
SepiaPixelUnclamped(p) ==
    LET r == p[1]
        g == p[2]
        b == p[3]
    IN  <<RoundHalfEven(393 * r + 769 * g + 189 * b, Thousand),
          RoundHalfEven(349 * r + 686 * g + 168 * b, Thousand),
          RoundHalfEven(272 * r + 534 * g + 131 * b, Thousand),
          p[4]>>
SepiaPixel(p) ==
    LET r == p[1]
        g == p[2]
        b == p[3]
    IN  <<ToUint8Clamped(Min(ChannelMax * Thousand, 393 * r + 769 * g + 189 * b)),
          ToUint8Clamped(Min(ChannelMax * Thousand, 349 * r + 686 * g + 168 * b)),
          ToUint8Clamped(Min(ChannelMax * Thousand, 272 * r + 534 * g + 131 * b)),
          p[4]>>

\* the channel values tried: the ends of a byte, their neighbours, the middle
ChannelValues == {0, 1, 128, 254, ChannelMax}
Pixels == {<<r, g, b, a>> : r \in ChannelValues, g \in ChannelValues,
                            b \in ChannelValues, a \in {0, 128, ChannelMax}}

FilterStep ==
    UNCHANGED <<hostVars, selVars, pdfImpl, viewerVars, taskVars, urlVars,
                lastAdjust, updates>>

\* context.getImageData(0, 0, canvas.width, canvas.height), one pixel of it
getImageData(p) ==
    /\ pixel' = p
    /\ sepiaOut' = NoPixel
    /\ FilterStep

\* the for loop and context.putImageData(imageData, 0, 0)
putImageData ==
    /\ sepiaOut = NoPixel
    /\ sepiaOut' = SepiaPixel(pixel)
    /\ pixel' = pixel
    /\ FilterStep

NextSepia ==
    \/ \E p \in Pixels : getImageData(p)
    \/ putImageData

SpecSepia == Init /\ [][NextSepia]_vars

\* the slider values tried: the ends of each slider and the default
ContrastChoices == {ContrastMin, ContrastInit, ContrastMax}
BrightnessChoices == {BrightnessMin, BrightnessInit, BrightnessMax}

\* a Word or Text document under the visual controls
NextVisual ==
    \/ \E f \in {WordA, TextA} : handleFileSelect(f)
    \/ handleGoHome
    \/ \E i \in 1..MaxLoads, ok \in BOOLEAN : LoadComplete(i, ok)
    \/ \E value \in Themes : setTheme(value)
    \/ zoomIn
    \/ zoomOut
    \/ resetZoom
    \/ \E value \in ZoomSlider : setZoom(value)
    \/ \E value \in ContrastChoices : setContrast(value)
    \/ \E value \in BrightnessChoices : setBrightness(value)
    \/ resetVisualSettings

SpecVisual == Init /\ [][NextVisual]_vars


(***************************************************************************)
(* C1: whenever totalPages > 0 the page cursor satisfies                   *)
(* currentPage <= totalPages.                                              *)
(***************************************************************************)
C1_PageWithinTotal == totalPages > 0 => currentPage <= totalPages


(***************************************************************************)
(* C2: each auto-advance tick moves currentPage from k to k+1 when         *)
(* k < totalPages and from totalPages back to 1.                           *)
(***************************************************************************)
C2_TickAdvancesOrWraps ==
    [][\A t \in timers :
         TimerTick(t) =>
            /\ (currentPage < totalPages => currentPage' = currentPage + 1)
            /\ (currentPage = totalPages => currentPage' = 1)]_vars


(***************************************************************************)
(* C3: at most one auto-advance timer is live, none while autoScroll is    *)
(* false, and a live timer has the period 3000/scrollSpeed of the current  *)
(* scrollSpeed.                                                            *)
(***************************************************************************)
C3_SingleTimer ==
    /\ Cardinality(timers) <= 1
    /\ (~autoScroll => timers = {})
    /\ \A t \in timers : t.interval * scrollSpeed = 2 * BaseInterval

\* a timer is live after autoScroll was switched on and the speed changed
C3_Witness ==
    /\ autoScroll
    /\ scrollSpeed = SpeedMax
    /\ Cardinality(timers) = 1
    /\ currentPage > 1

(***************************************************************************)
(* C4: once a document is closed or replaced, no timer created for the     *)
(* previous document (or holding its page count) is left to advance the    *)
(* page.                                                                   *)
(***************************************************************************)
C4_NoTimerOfOldDocument ==
    \A t \in timers :
        /\ t.file = documentFile
        /\ (pdfImpl = "canvas" => t.numPages = documentFile.numPages)

\* autoScroll was switched on over an iframe PDF (whose timer then ran), that
\* PDF was closed and a text document selected and loaded in its place
C4_Witness ==
    /\ pdfImpl = "iframe"
    /\ autoScroll
    /\ documentFile = TextA
    /\ ~isLoading
    /\ timers = {}

(***************************************************************************)
(* C5: the result of a superseded load is discarded, so totalPages is the  *)
(* page count reported for the selected document, or 0 while its load has  *)
(* not completed.                                                          *)
(***************************************************************************)
C5_TotalPagesOfCurrentDocument ==
    /\ (documentFile = NoFile \/ isLoading => totalPages = 0)
    /\ totalPages # 0 =>
         totalPages = IF fileType # "pdf" THEN 1
                      ELSE IF pdfImpl = "iframe" THEN PlaceholderPages
                      ELSE documentFile.numPages


(***************************************************************************)
(* C6: once all in-flight renders have completed, the canvas shows the     *)
(* latest currentPage, rotation and theme, whatever the order in which     *)
(* the renders completed.                                                  *)
(***************************************************************************)
C6_LatestRenderShown ==
    (PdfMounted /\ pdfDoc # NoFile /\ renders = <<>>) =>
        canvas = [page |-> currentPage, rotation |-> rotation, theme |-> theme]


(***************************************************************************)
(* C7: a declared media type that is one of the known PDF, Word or text    *)
(* signatures decides the format, whatever the extension of the name.      *)
(***************************************************************************)
C7_MediaTypeFirst ==
    selType # "none" =>
        /\ (selFile.type = PdfMime => selType = "pdf")
        /\ (selFile.type \in {DocxMime, DocMime} => selType = "word")
        /\ (selFile.type = TextMime => selType = "text")

(***************************************************************************)
(* C8: without a known media type the extension decides: .pdf is PDF,      *)
(* .docx and .doc are Word, .txt is Text, anything else Unsupported.       *)
(***************************************************************************)
C8_ExtensionFallback ==
    (selType # "none" /\ selFile.type \notin {PdfMime, DocxMime, DocMime, TextMime}) =>
        selType = IF EndsWith(selFile.name, DotPdf) THEN "pdf"
                  ELSE IF EndsWith(selFile.name, DotDocx) \/ EndsWith(selFile.name, DotDoc)
                       THEN "word"
                  ELSE IF EndsWith(selFile.name, DotTxt) THEN "text"
                  ELSE "null"


(***************************************************************************)
(* C9: selecting or dropping a file detected as Unsupported changes no     *)
(* state of the host, of the viewer or of its pending tasks.               *)
(***************************************************************************)
C9_RejectChangesNothing ==
    [][(selType' = "null" /\ selVars' # selVars) =>
           UNCHANGED <<hostVars, viewerVars, taskVars>>]_vars

\* an unsupported file was offered after a session that left autoScroll on
\* and a stale load's page count behind
C9_Witness ==
    /\ selType = "null"
    /\ selFile = ImageA
    /\ autoScroll
    /\ totalPages = 1

(***************************************************************************)
(* C10: every change of the selected document sets currentPage to 1 and    *)
(* totalPages to 0, and totalPages then stays 0 until the load of the      *)
(* newly selected document reports a page count.                           *)
(***************************************************************************)
C10_ResetUntilLoadReports ==
    [][/\ documentFile' # documentFile =>
            /\ currentPage' = 1
            /\ totalPages' = 0 \/ (IframePdf(fileType') /\ ~isLoading')
       /\ (totalPages' # totalPages /\ totalPages' # 0) =>
            \/ documentFile' # documentFile /\ IframePdf(fileType')
            \/ \E i \in 1..Len(loads) :
                  /\ loads[i].live
                  /\ loads[i].file = documentFile
                  /\ loads' = Remove(loads, i)]_vars



(***************************************************************************)
(* C11: zoom stays within [0.5, 3.0] under every sequence of zoomIn,       *)
(* zoomOut, resetZoom, the zoom slider and resetVisualSettings; zoomIn at  *)
(* 3.0 and zoomOut at 0.5 leave zoom as it is.                             *)
(***************************************************************************)
C11_ZoomWithinRange ==
    /\ zoom >= ZoomMin
    /\ zoom <= ZoomMax
    /\ (zoom = ZoomMax => ZoomInValue(zoom) = zoom)
    /\ (zoom = ZoomMin => ZoomOutValue(zoom) = zoom)

\* repeated zoomIn has brought zoom to exactly 3.0 (the slider stops at 2.0)
C11_Witness == zoom = ZoomMax /\ lastAdjust = "zoomIn"


(***************************************************************************)
(* C12: nextPage and prevPage clamp: the page after the command equals     *)
(* max(1, min(p, totalPages)) for p = currentPage + 1 and currentPage - 1, *)
(* and currentPage is never below 1.                                       *)
(***************************************************************************)
C12_NavigationClamps ==
    [][/\ nextPage => currentPage' = Max(1, Min(currentPage + 1, totalPages))
       /\ prevPage => currentPage' = Max(1, Min(currentPage - 1, totalPages))
       /\ currentPage' >= 1]_vars


(***************************************************************************)
(* C13: when the load of the selected document has failed, whichever       *)
(* strategy is mounted, a user-visible error message is shown, the         *)
(* document stays selected and totalPages is still 0.                      *)
(***************************************************************************)
C13_FailedLoadShowsError ==
    (/\ DocumentOpen
     /\ ~IframePdf(fileType)
     /\ ~isLoading
     /\ pdfDoc = NoFile
     /\ content = NoFile)
        => error # "" /\ documentFile # NoFile /\ totalPages = 0


(***************************************************************************)
(* C14: after a successful PDF load the totalPages reported to the host    *)
(* equals the actual page count of the document.                           *)
(***************************************************************************)
C14_ReportedPagesAreActual ==
    (/\ PdfMounted
     /\ ~isLoading
     /\ loads = <<>>
     /\ (pdfDoc = documentFile \/ content = documentFile))
        => totalPages = documentFile.numPages


(***************************************************************************)
(* C15: every object URL created for a PDF is released on teardown: no     *)
(* URL of a document that is no longer open is left unrevoked.             *)
(***************************************************************************)
C15_ObjectUrlsReleased == \A u \in objectUrls : u = documentFile


(***************************************************************************)
(* C16: for the theme in force and every contrast of the slider, the       *)
(* opacity of the Word body text, of the Word headings and of the Text     *)
(* body lies in [0, 1], and one more step of contrast never lowers it.     *)
(***************************************************************************)
C16_OpacityBoundedMonotone ==
    \A c \in Contrasts :
        LET word == getContentStyles(theme, c)
            text == getTextColor(theme, c)
            wordNext == getContentStyles(theme, c + 1)
            textNext == getTextColor(theme, c + 1)
        IN  /\ word.text.alpha \in 0..OpacityOne
            /\ word.heading.alpha \in 0..OpacityOne
            /\ text.alpha \in 0..OpacityOne
            /\ c < ContrastMax =>
                  /\ word.text.alpha <= wordNext.text.alpha
                  /\ word.heading.alpha <= wordNext.heading.alpha
                  /\ text.alpha <= textNext.alpha

\* a converted Word document shown in sepia at the lowest contrast
C16_Witness ==
    /\ fileType = "word"
    /\ content = documentFile
    /\ theme = "sepia"
    /\ contrast = ContrastMin
    /\ lastAdjust = "setContrast"


(***************************************************************************)
(* C17: for every input pixel with R, G and B in [0, 255] the sepia        *)
(* transform yields R, G and B in [0, 255] and leaves alpha as it was.     *)
(***************************************************************************)
C17_SepiaChannelsInRange ==
    sepiaOut # NoPixel =>
        /\ \A i \in 1..3 : sepiaOut[i] \in 0..ChannelMax
        /\ sepiaOut[4] = pixel[4]

\* a white half-transparent pixel: the red and green sums exceed 255
C17_Witness ==
    /\ pixel = <<ChannelMax, ChannelMax, ChannelMax, 128>>
    /\ sepiaOut = <<ChannelMax, ChannelMax, 239, 128>>


(***************************************************************************)
(* C18: rotation is always one of 0, 90, 180, 270; a step that changes it  *)
(* is a rotate on an open PDF and maps it to (rotation + 90) mod 360; four *)
(* such turns in a row bring rotation back to where it started.            *)
(***************************************************************************)
C18_RotationQuarterTurns ==
    [][LET turn(x) == (x + 90) % 360
       IN  /\ rotation' \in Rotations
           /\ rotation' # rotation =>
                 /\ documentFile # NoFile
                 /\ fileType = "pdf"
                 /\ rotation' = turn(rotation)
           /\ rotate => turn(turn(turn(rotation'))) = rotation]_vars

\* the fourth rotate has wrapped rotation to 0 while the canvas still shows
\* the page turned by 270
C18_Witness ==
    /\ PdfMounted
    /\ rotation = 0
    /\ canvas.page > 0
    /\ canvas.rotation = 270


(***************************************************************************)
(* C19: resetVisualSettings sets zoom, contrast and brightness to exactly  *)
(* 1.0 from any prior values and leaves documentFile, fileType,            *)
(* currentPage, totalPages, rotation, theme, autoScroll and scrollSpeed    *)
(* unchanged.                                                              *)
(***************************************************************************)
C19_ResetVisualFrame ==
    [][resetVisualSettings =>
          /\ zoom' = 4            \* 1.0 in quarters
          /\ contrast' = 10       \* 1.0 in tenths
          /\ brightness' = 10     \* 1.0 in tenths
          /\ UNCHANGED <<documentFile, fileType, currentPage, totalPages,
                         rotation, theme, autoScroll, scrollSpeed>>]_vars

\* the reset has run on a loaded Word document shown in sepia
C19_Witness ==
    /\ lastAdjust = "resetVisualSettings"
    /\ zoom = 4
    /\ contrast = 10
    /\ brightness = 10
    /\ documentFile = WordA
    /\ totalPages = 1
    /\ theme = "sepia"


(***************************************************************************)
(* C20: for a Word document the conversion is invoked exactly once per     *)
(* selected document: a change of theme, contrast, brightness or zoom      *)
(* starts no conversion and leaves the converted markup as it is.          *)
(***************************************************************************)
C20_ConvertedOncePerDocument ==
    [][/\ (documentFile' # NoFile /\ fileType' = "word") =>
             Cardinality({i \in 1..Len(loads') : loads'[i].live})
                + (IF isLoading' THEN 0 ELSE 1) = 1
       /\ (visualVars' # visualVars \/ theme' # theme) =>
             /\ loads' = loads
             /\ content' = content
             /\ isLoading' = isLoading]_vars

\* a converted Word document after every style control has been moved
C20_Witness ==
    /\ fileType = "word"
    /\ content = documentFile
    /\ loads = <<>>
    /\ theme = "high-contrast"
    /\ zoom = ZoomMax
    /\ contrast = ContrastMax
    /\ brightness = BrightnessMin


(***************************************************************************)
(* C21: while the open document is a Word or Text document currentPage is  *)
(* 1 in every reachable state: no navigation command and no auto-advance   *)
(* tick changes it, even with autoScroll left on by an earlier PDF.        *)
(***************************************************************************)
C21_PageOneOutsidePdf ==
    (documentFile # NoFile /\ fileType \in {"word", "text"}) => currentPage = 1

\* a loaded Word document with autoScroll still on (the switch exists only
\* while a PDF is open) and no timer alive
C21_Witness ==
    /\ fileType = "word"
    /\ content = documentFile
    /\ autoScroll
    /\ timers = {}
    /\ currentPage = 1


(***************************************************************************)
(* C22: under any interleaving of auto-advance ticks with nextPage and     *)
(* prevPage, the page a render arrives at is the sequential application    *)
(* of the delivered events, in their order of delivery, each to the page   *)
(* the one before it left: none is lost, none starts from a stale page.    *)
(***************************************************************************)
C22_UpdatesAppliedInOrder ==
    [][flushUpdates =>
          LET event(u, page) ==
                  CASE u.event = "next" -> Min(page + 1, totalPages)
                    [] u.event = "prev" -> Max(page - 1, 1)
                    [] u.event = "tick" ->
                          IF pdfImpl = "iframe" THEN page + 1
                          ELSE IF page >= pdfDoc.numPages THEN 1 ELSE page + 1
              RECURSIVE sequential(_, _)
              sequential(queue, page) ==
                  IF queue = <<>> THEN page
                  ELSE sequential(Tail(queue), event(Head(queue), page))
          IN  currentPage' = sequential(updates, currentPage)]_vars

\* a tick and then a click on Next were delivered before any render
C22_Witness ==
    /\ PdfMounted
    /\ \E i, j \in 1..Len(updates) :
          /\ i < j
          /\ updates[i].event = "tick"
          /\ updates[j].event = "next"


(***************************************************************************)
(* C23: every load, of each of the three viewers, eventually leaves the    *)
(* Loading state, provided the awaited collaborator eventually resolves    *)
(* or rejects: the loading indicator is cleared on success and on failure. *)
(***************************************************************************)
C23_LoadingEnds == isLoading ~> ~isLoading

\* a Word load has failed and the indicator is cleared
C23_Witness ==
    /\ fileType = "word"
    /\ documentFile # NoFile
    /\ ~isLoading
    /\ error # ""
    /\ content = NoFile

====
